---- MODULE Spec2Model ----
(***************************************************************************)
(* IPv4 fragment reassembly of datapath/linux/compat/ip_fragment.c.        *)
(*                                                                         *)
(* State: the reassembly queues (struct ipq with its inet_frag_queue), the *)
(* hash index, the per-source inet_peer counter, and the callers that are  *)
(* inside rpl_ip_defrag.  One action per step that runs without the queue  *)
(* lock changing hands: the lookup (ip_evictor is a separate action, see   *)
(* Evict), the locked section ip_frag_queue + ipq_put, the timer expiry    *)
(* dispatch and the locked body of ip_expire.                              *)
(*                                                                         *)
(* A fragment's payload is the byte string it arrived with; a held record  *)
(* names the slice of it that is still kept: src (the arriving fragment),  *)
(* skip (bytes pulled from its head) and len (bytes kept).                 *)
(***************************************************************************)
EXTENDS Integers, Sequences, FiniteSets, TLC

\* ---------------------------------------------------------------- bounds
\* Largest wire fragment offset (in 8-byte units) of the generic inputs.
MaxOff == 2
\* rpl_ip_defrag calls in one run.
MaxCalls == 3
\* Queues ever created in one run.
MaxQ == 2
\* Bursts of fragments of the same source that go to other queues.
MaxBursts == 1

\* ------------------------------------------------------- program constants
sysctl_ipfrag_max_dist == 64
\* The fragment offset field counts 8-byte units ("offset <<= 3", "end & 7").
FragUnit == 8
\* len > 65535 is oversized.
MaxDatagram == 65535

INET_FRAG_FIRST_IN == "FIRST_IN"
INET_FRAG_LAST_IN == "LAST_IN"
INET_FRAG_COMPLETE == "COMPLETE"
INET_FRAG_EVICTED == "EVICTED"

EINPROGRESS == "-EINPROGRESS"
ENOENT == "-ENOENT"
EINVAL == "-EINVAL"
ENOMEM == "-ENOMEM"
ETIMEDOUT == "-ETIMEDOUT"
E2BIG == "-E2BIG"
OK == "0"

\* INET_ECN_MASK: the two ECN bits of tos.
INET_ECN_MASK == 3

\* ovs_netns_frags_init: ipv4_frags.high_thresh and low_thresh, in bytes.
high_thresh == 4194304
low_thresh == 3145728

\* enum ip_defrag_users: the callers' context tags.
IP_DEFRAG_LOCAL_DELIVER == "IP_DEFRAG_LOCAL_DELIVER"
IP_DEFRAG_CONNTRACK_IN == "IP_DEFRAG_CONNTRACK_IN"
IP_DEFRAG_CONNTRACK_BRIDGE_IN == "IP_DEFRAG_CONNTRACK_BRIDGE_IN"
IP_DEFRAG_AF_PACKET == "IP_DEFRAG_AF_PACKET"

\* ------------------------------------------------------------------ inputs
\* What ip_find is called with: the header's id, saddr, daddr and protocol,
\* the caller's context tag and the routing-domain index of the device.
Key(i, s, d, p, u, v) ==
  [id |-> i, saddr |-> s, daddr |-> d, protocol |-> p, user |-> u, vif |-> v]

K0 == Key(1, "s1", "d1", "udp", IP_DEFRAG_CONNTRACK_IN, 0)

Procs == {"c1", "c2"}
QIds == 1..MaxQ

\* The inputs are drawn per run from one family of traffic, so that each
\* family can be explored to the full depth of MaxCalls:
\*   "overlap"  every offset/length/more-fragments combination on a small
\*              grid (a short tail, one unit, one and a half units: a
\*              more-fragments end that is not aligned, two units);
\*   "df"       fragments with and without do-not-fragment;
\*   "ecn"      fragments with Not-ECT, ECT(0) and CE codepoints;
\*   "fault"    allocation failures inside ip_frag_queue and ip_frag_reasm;
\*   "example"  fragments with and without IPSKB_FRAG_COMPLETE:
\*              the overlap example (offset 0, len 1000, MF) followed by a
\*              final fragment that starts inside it and ends at 1500 (wire
\*              offsets are multiples of 8 bytes, so it starts at
\*              62 * 8 = 496), a pair that covers more than 65535 bytes,
\*              and a fragment of less than one unit at the far end.
Traffic == {"overlap", "df", "ecn", "fault", "example"}

\* Families about what happens around the insertion:
\*   "pressure"  two datagrams whose fragments sit in buffers so large that
\*               a few of them cross the memory thresholds;
\*   "notify"    a datagram in two fragments, under a context tag for which
\*               frag_expire_skip_icmp holds and under one for which it
\*               does not, with every outcome of the device and route
\*               lookups of ip_expire;
\*   "spread"    fragments of one datagram between which the source sends
\*               bursts of less than sysctl_ipfrag_max_dist fragments to
\*               other queues;
\*   "keys"      fragments of datagrams whose keys differ from one another
\*               in a single field, each of the six in turn;
\*   "mixed"     Not-ECT and CE fragments of one datagram, one of them
\*               too short to be accepted.
Load == {"pressure", "notify", "spread", "keys", "mixed"}

\* An arriving fragment; truesize is what its buffer charges, here the
\* bytes it carries (header and payload).
Frag(o, l, m, d) ==
  [off |-> o, len |-> l, mf |-> m, df |-> d, ihl |-> 20, dev |-> 1,
   truesize |-> l + 20]

ExampleFrags ==
  { Frag(0, 1000, TRUE, FALSE), Frag(62, 1004, FALSE, FALSE),
    Frag(0, 65512, TRUE, FALSE), Frag(8189, 16, FALSE, FALSE),
    Frag(8190, 4, TRUE, FALSE) }

Mib == 1024 * 1024

\* The fragment f in a buffer of truesize ts.
Heavy(f, ts) == [f EXCEPT !.truesize = ts]

FragsOf(tr) ==
  CASE tr = "mixed" ->
         {Frag(0, 4, TRUE, FALSE), Frag(0, 8, TRUE, FALSE),
          Frag(1, 8, FALSE, FALSE)}
    [] tr = "keys" ->
         {Frag(0, 8, TRUE, FALSE), Frag(1, 8, FALSE, FALSE)}
    [] tr = "spread" ->
         {Frag(0, 8, TRUE, FALSE), Frag(1, 8, TRUE, FALSE)}
    [] tr = "notify" ->
         {Frag(0, 8, TRUE, FALSE), Frag(1, 8, FALSE, FALSE)}
    [] tr = "pressure" ->
         {Heavy(Frag(0, 8, TRUE, FALSE), 3 * (Mib \div 2)),
          Heavy(Frag(1, 8, TRUE, FALSE), 3 * (Mib \div 2)),
          Heavy(Frag(0, 8, TRUE, FALSE), 7 * (Mib \div 2))}
    [] tr = "overlap" ->
         {Frag(o, l, m, FALSE) : o \in 0..MaxOff, l \in {4, 8, 12, 16},
                                 m \in BOOLEAN}
    [] tr = "df" ->
         {Frag(o, l, m, d) : o \in 0..1, l \in {8, 16},
                             m \in BOOLEAN, d \in BOOLEAN}
    [] tr = "ecn" ->
         {Frag(0, 8, TRUE, FALSE), Frag(0, 8, FALSE, FALSE),
          Frag(1, 8, FALSE, FALSE)}
    [] tr = "fault" ->
         {Frag(0, 8, TRUE, FALSE), Frag(0, 16, TRUE, FALSE),
          Frag(1, 16, TRUE, FALSE), Frag(1, 8, FALSE, FALSE)}
    [] tr = "example" -> ExampleFrags

\* The keys that differ from k in exactly one field.
OneFieldOff(k) ==
  { [k EXCEPT !.id = 2], [k EXCEPT !.saddr = "s2"],
    [k EXCEPT !.daddr = "d2"], [k EXCEPT !.protocol = "tcp"],
    [k EXCEPT !.user = IP_DEFRAG_LOCAL_DELIVER], [k EXCEPT !.vif = 1] }

\* The keys the callers present.
KeysOf(tr) ==
  CASE tr = "pressure" -> {K0, [K0 EXCEPT !.id = 2]}
    [] tr = "notify" -> {K0, [K0 EXCEPT !.user = IP_DEFRAG_LOCAL_DELIVER]}
    [] tr = "keys" -> {K0} \cup OneFieldOff(K0)
    [] OTHER -> {K0}

Keys == UNION {KeysOf(tr) : tr \in Traffic \cup Load}
Saddrs == {k.saddr : k \in Keys}

\* rpl_ip_defrag calls in one run of the family.
CallsOf(tr) == IF tr = "pressure" THEN MaxCalls + 1 ELSE MaxCalls

\* What ip_expire meets when it looks for the way back to the sender:
\* dev_get_by_index_rcu finds the device, ip_route_input_noref finds a
\* route, the route's rt_type is RTN_LOCAL.
Env(d, r, l) == [dev |-> d, route |-> r, local |-> l]
EnvOf(tr) ==
  IF tr = "notify"
  THEN {Env(FALSE, FALSE, FALSE), Env(TRUE, FALSE, FALSE),
        Env(TRUE, TRUE, FALSE), Env(TRUE, TRUE, TRUE)}
  ELSE {Env(FALSE, FALSE, FALSE)}

\* ECN codepoints of arriving fragments: Not-ECT, ECT(0), CE.
EcnOf(tr) ==
  CASE tr = "ecn" -> {0, 2, 3}
    [] tr = "mixed" -> {0, 3}
    [] OTHER -> {0}

\* Where an allocation inside ip_frag_queue / ip_frag_reasm fails.
\* ("pull": the header pull or the trim to end - offset.)
OomPoints == {"none", "pull", "pull_prev", "pull_next", "clone", "unclone"}
OomOf(tr) == IF tr = "fault" THEN OomPoints ELSE {"none"}

\* The families in which the source also sends bursts to other queues.
BurstsOf(tr) ==
  CASE tr \in {"df", "fault", "example"} -> MaxBursts
    [] tr = "spread" -> MaxBursts + 1
    [] OTHER -> 0

\* The fragments of one burst.
BurstSize(tr) ==
  IF tr = "spread" THEN (5 * sysctl_ipfrag_max_dist) \div 8
  ELSE sysctl_ipfrag_max_dist

\* IPCB(skb)->flags & IPSKB_FRAG_COMPLETE of arriving fragments.
FcOf(tr) == IF tr \in {"example", "spread"} THEN BOOLEAN ELSE {FALSE}

NoDgram == [none |-> TRUE]

\* ------------------------------------------------------------------- state
VARIABLES
  queues,    \* QIds -> the ipq, or NoQueue (not allocated yet) or Freed
  peer_rid,  \* per source address: peer->rid
  lru,       \* nf->lru_list: the hashed queues, least recently used first
  icmp,      \* the ICMP time-exceeded messages sent by ip_expire
  evicted,   \* queues the ip_evictor runs have evicted so far
  born,      \* history, kept in the runs of Load: per queue, peer->rid
             \* when the queue was created
  seen,      \* history, kept in the runs of "mixed": per queue, the union
             \* of ip4_frag_ecn of the fragments inserted since the queue
             \* was created or reinitialized
  pc,        \* per caller: "idle", or "queue" between ip_find and the lock
  qp,        \* per caller: the queue ip_find returned (0: none)
  tos,       \* per caller: the ECN codepoint of the fragment it carries
  calls,     \* rpl_ip_defrag calls started
  bursts,    \* bursts of the source's other traffic so far
  last,      \* the most recent return of rpl_ip_defrag, with the queue's
             \* flags, len and meat when ip_frag_queue returned
  cover,     \* per queue: the fragments of an undisturbed exact-cover run
  traffic    \* the family of traffic of this run

vars ==
  <<queues, peer_rid, lru, icmp, evicted, born, seen, pc, qp, tos, calls,
    bursts, last, cover, traffic>>

NoQueue == [state |-> "none"]
Freed == [state |-> "freed"]
IsQueue(q) == q.state = "live"

\* ----------------------------------------------------------------- helpers
Bit(a, i) == (a \div (2 ^ i)) % 2
\* a | b on the 4-bit ECN space
BitOr(a, b) ==
  LET b0 == IF Bit(a, 0) = 1 \/ Bit(b, 0) = 1 THEN 1 ELSE 0
      b1 == IF Bit(a, 1) = 1 \/ Bit(b, 1) = 1 THEN 2 ELSE 0
      b2 == IF Bit(a, 2) = 1 \/ Bit(b, 2) = 1 THEN 4 ELSE 0
      b3 == IF Bit(a, 3) = 1 \/ Bit(b, 3) = 1 THEN 8 ELSE 0
  IN b0 + b1 + b2 + b3

Max(a, b) == IF a > b THEN a ELSE b

ip4_frag_ecn(t) == 2 ^ (t % (INET_ECN_MASK + 1))

\* ip_frag_ecn_table[]: 0xff for a union that mixes Not-ECT with anything
\* else, CE when CE met ECT(0)/ECT(1), 0 otherwise.
ip_frag_ecn_table(e) ==
  IF Bit(e, 0) = 1 /\ e # 1 THEN 255
  ELSE IF Bit(e, 3) = 1 /\ e # 8 THEN 3
  ELSE 0

\* ip4_frag_init on a zeroed inet_frag_queue; inet_frag_intern arms the
\* timer and hashes the queue: one reference each for the hash, the timer
\* and the caller.
ip4_frag_init(k, t) ==
  [state |-> "live", key |-> k, ecn |-> ip4_frag_ecn(t),
   max_df_size |-> 0, iif |-> 0, rid |-> 0, mem |-> 0,
   flags |-> {}, len |-> 0, meat |-> 0, fragments |-> <<>>, max_size |-> 0,
   timer |-> "pending", expiring |-> FALSE, hashed |-> TRUE, refcnt |-> 3]

\* inet_frag_kill: stop the timer, and unless already dead unhash and mark.
ipq_kill(q) ==
  LET q1 == IF q.timer = "pending"
            THEN [q EXCEPT !.timer = "off", !.refcnt = @ - 1]
            ELSE q
  IN IF INET_FRAG_COMPLETE \in q1.flags THEN q1
     ELSE [q1 EXCEPT !.hashed = FALSE, !.refcnt = @ - 1,
                     !.flags = @ \cup {INET_FRAG_COMPLETE}]

\* inet_frag_put: the last reference destroys the queue and its fragments.
ipq_put(q) ==
  IF q.refcnt = 1 THEN Freed ELSE [q EXCEPT !.refcnt = @ - 1]

\* (variant: the queue does not note the counter it saw)
ip_frag_too_far_KeepRid(q, prid) ==
  [rc |-> q.fragments # <<>> /\ ((prid + 1) - q.rid) > sysctl_ipfrag_max_dist,
   q |-> q,
   peer_rid |-> prid + 1]

\* ip_frag_too_far, with peer->rid passed in: [rc, q, peer_rid].  rid is a
\* u32 counter; the runs explored here stay far below its wrap, so
\* end - start is the plain difference.
ip_frag_too_far(q, prid) ==
  LET start == q.rid
      end == prid + 1
  IN [rc |-> q.fragments # <<>> /\ (end - start) > sysctl_ipfrag_max_dist,
      q |-> [q EXCEPT !.rid = end],
      peer_rid |-> end]

\* The truesize of the records of a fragment list, summed.
RECURSIVE SumTruesize(_)
SumTruesize(fr) ==
  IF fr = <<>> THEN 0 ELSE Head(fr).f.truesize + SumTruesize(Tail(fr))

\* (variant: the declared length survives the reinitialization)
ip_frag_reinit_KeepLen(q) ==
  IF q.timer # "pending"
  THEN [err |-> ETIMEDOUT,
        q |-> [q EXCEPT !.timer = "pending", !.refcnt = @ + 1]]
  ELSE [err |-> OK,
        q |-> [q EXCEPT !.mem = @ - SumTruesize(q.fragments),
                        !.flags = {}, !.meat = 0,
                        !.fragments = <<>>, !.iif = 0, !.ecn = 0]]

\* (variant: the released fragments stay charged)
ip_frag_reinit_KeepCharge(q) ==
  IF q.timer # "pending"
  THEN [err |-> ETIMEDOUT,
        q |-> [q EXCEPT !.timer = "pending", !.refcnt = @ + 1]]
  ELSE [err |-> OK,
        q |-> [q EXCEPT !.flags = {}, !.len = 0, !.meat = 0,
                        !.fragments = <<>>, !.iif = 0, !.ecn = 0]]

\* (variant: the timer armed again gets no reference)
ip_frag_reinit_NoRef(q) ==
  IF q.timer # "pending"
  THEN [err |-> ETIMEDOUT, q |-> [q EXCEPT !.timer = "pending"]]
  ELSE [err |-> OK,
        q |-> [q EXCEPT !.mem = @ - SumTruesize(q.fragments),
                        !.flags = {}, !.len = 0, !.meat = 0,
                        !.fragments = <<>>, !.iif = 0, !.ecn = 0]]

\* ip_frag_reinit: [err, q].  mod_timer returns 0 when the timer was not
\* pending (its callback is already running) and arms it again.
ip_frag_reinit(q) ==
  IF q.timer # "pending"
  THEN [err |-> ETIMEDOUT,
        q |-> [q EXCEPT !.timer = "pending", !.refcnt = @ + 1]]
  ELSE [err |-> OK,
        q |-> [q EXCEPT !.mem = @ - SumTruesize(q.fragments),
                        !.flags = {}, !.len = 0, !.meat = 0,
                        !.fragments = <<>>, !.iif = 0, !.ecn = 0]]

\* ----------------------------------------------------------- ip_frag_reasm
\* The datagram body is the list of payload slices in list order.
Slice(r) == [f |-> r.f, tos |-> r.tos, skip |-> r.skip, len |-> r.len]

\* [err, q, dgram].  head is the first record; prev # 0 says the fragment
\* just received is not the head and has to be cloned.
ip_frag_reasm(q0, prev, oom) ==
  LET q == ipq_kill(q0)
      ecn == ip_frag_ecn_table(q.ecn)
      head == q.fragments[1]
      len == head.f.ihl + q.len
      fail(e) == [err |-> e, q |-> q, dgram |-> NoDgram]
  IN IF ecn = 255 THEN fail(EINVAL)
     ELSE IF prev # 0 /\ oom = "clone" THEN fail(ENOMEM)
     ELSE IF len > MaxDatagram THEN fail(E2BIG)
     ELSE IF oom = "unclone" THEN fail(ENOMEM)
     ELSE [err |-> OK,
           q |-> [q EXCEPT !.mem = @ - SumTruesize(q.fragments),
                           !.fragments = <<>>],
           dgram |->
             [body |-> [i \in 1..Len(q.fragments) |-> Slice(q.fragments[i])],
              tot_len |-> len,
              tos |-> BitOr(head.tos, ecn),
              df |-> (q.max_df_size = q.max_size),
              frag_max_size |-> Max(q.max_df_size, q.max_size)]]

\* ----------------------------------------------------------- ip_frag_queue
\* (variant: every fragment is appended at the tail)
FindNext_Append(fr, offset) == Len(fr) + 1

\* The first list position whose offset is >= offset (Len + 1: none); the
\* tail is tried first.
FindNext(fr, offset) ==
  IF fr = <<>> \/ fr[Len(fr)].offset < offset THEN Len(fr) + 1
  ELSE CHOOSE i \in 1..Len(fr) :
         /\ fr[i].offset >= offset
         /\ \A j \in 1..(i - 1) : fr[j].offset < offset

\* (variant: the successors are left as they are)
EatNext_Stop(rest, end, meat, oom) ==
  [rest |-> rest, meat |-> meat, err |-> FALSE]

\* (variant: a successor is cut at its head without "meat -= i")
RECURSIVE EatNext_KeepMeat(_, _, _, _)
EatNext_KeepMeat(rest, end, meat, oom) ==
  IF rest = <<>> \/ rest[1].offset >= end
  THEN [rest |-> rest, meat |-> meat, err |-> FALSE]
  ELSE LET next == rest[1]
           i == end - next.offset
       IN IF i < next.len
          THEN [rest |-> <<[next EXCEPT !.offset = @ + i,
                                        !.len = @ - i,
                                        !.skip = @ + i]>> \o Tail(rest),
                meat |-> meat, err |-> FALSE]
          ELSE EatNext_KeepMeat(Tail(rest), end, meat - next.len, oom)

\* The loop over the successors that begin before end: [rest, meat, err].
RECURSIVE EatNext(_, _, _, _)
EatNext(rest, end, meat, oom) ==
  IF rest = <<>> \/ rest[1].offset >= end
  THEN [rest |-> rest, meat |-> meat, err |-> FALSE]
  ELSE LET next == rest[1]
           i == end - next.offset
       IN IF i < next.len
          THEN IF oom = "pull_next"
               THEN [rest |-> rest, meat |-> meat, err |-> TRUE]
               ELSE [rest |-> <<[next EXCEPT !.offset = @ + i,
                                             !.len = @ - i,
                                             !.skip = @ + i]>> \o Tail(rest),
                     meat |-> meat - i, err |-> FALSE]
          ELSE EatNext(Tail(rest), end, meat - next.len, oom)

\* (variant: the fragment's end is taken as the datagram's end, unchecked)
CheckEnd_Overwrite(q, f) ==
  [err |-> FALSE,
   q |-> [q EXCEPT !.flags = IF f.mf THEN @ ELSE @ \cup {INET_FRAG_LAST_IN},
                   !.len = f.off * FragUnit + f.len],
   end |-> f.off * FragUnit + f.len]

\* The final-fragment / more-fragments branch: [err, q, end].
CheckEnd(q, f) ==
  LET offset == f.off * FragUnit
      end == offset + f.len
  IN IF ~f.mf
     THEN IF end < q.len
             \/ (INET_FRAG_LAST_IN \in q.flags /\ end # q.len)
          THEN [err |-> TRUE, q |-> q, end |-> end]
          ELSE [err |-> FALSE,
                q |-> [q EXCEPT !.flags = @ \cup {INET_FRAG_LAST_IN},
                                !.len = end],
                end |-> end]
     ELSE LET e8 == end - (end % FragUnit)
          IN IF e8 > q.len
             THEN IF INET_FRAG_LAST_IN \in q.flags
                  THEN [err |-> TRUE, q |-> q, end |-> e8]
                  ELSE [err |-> FALSE, q |-> [q EXCEPT !.len = e8], end |-> e8]
             ELSE [err |-> FALSE, q |-> q, end |-> e8]

\* (variant: without "meat == len")
IsComplete_FlagsOnly(q) ==
  q.flags = {INET_FRAG_FIRST_IN, INET_FRAG_LAST_IN}

\* Whether the queue now holds the whole datagram.
IsComplete(q) ==
  /\ q.flags = {INET_FRAG_FIRST_IN, INET_FRAG_LAST_IN}
  /\ q.meat = q.len

\* (variant: the overlap with the preceding record is not looked at)
PrevOverlap_None(fr, prev, offset) == 0

\* The overlap with the preceding record: how far the new start moves.
PrevOverlap(fr, prev, offset) ==
  IF prev = 0 THEN 0
  ELSE Max(0, (fr[prev].offset + fr[prev].len) - offset)

\* From "Find out which fragments are in front ..." to the return: the
\* queue q already carries the length bookkeeping of CheckEnd.
Link(q, f, t, end, oom) ==
  LET fr == q.fragments
      offset0 == f.off * FragUnit
      nx == FindNext(fr, offset0)
      prev == nx - 1
      i == PrevOverlap(fr, prev, offset0)
      offset == offset0 + i
      fail(e, qq) == [ret |-> e, q |-> qq, dgram |-> NoDgram]
  IN IF i > 0 /\ end <= offset THEN fail(EINVAL, q)
     ELSE IF i > 0 /\ oom = "pull_prev" THEN fail(ENOMEM, q)
     ELSE
       LET eat == EatNext(SubSeq(fr, nx, Len(fr)), end, q.meat, oom)
           freed == SumTruesize(SubSeq(fr, nx, Len(fr)))
                      - SumTruesize(eat.rest)
           q1 == [q EXCEPT !.fragments = SubSeq(fr, 1, prev) \o eat.rest,
                           !.meat = eat.meat,
                           !.mem = @ - freed]
       IN IF eat.err THEN fail(ENOMEM, q1)
          ELSE
            LET skb == [offset |-> offset, len |-> end - offset,
                        skip |-> i, f |-> f, tos |-> t]
                fragsize == skb.len + f.ihl
                q2 == [q1 EXCEPT
                         !.fragments =
                            SubSeq(fr, 1, prev) \o <<skb>> \o eat.rest,
                         !.iif = IF f.dev # 0 THEN f.dev ELSE @,
                         !.meat = @ + skb.len,
                         !.mem = @ + f.truesize,
                         !.ecn = BitOr(@, ip4_frag_ecn(t)),
                         !.flags = IF offset = 0
                                   THEN @ \cup {INET_FRAG_FIRST_IN} ELSE @,
                         !.max_size = Max(@, fragsize),
                         !.max_df_size =
                            IF f.df THEN Max(@, fragsize) ELSE @]
            IN IF IsComplete(q2)
               THEN LET r == ip_frag_reasm(q2, prev, oom)
                    IN [ret |-> r.err, q |-> r.q, dgram |-> r.dgram]
               ELSE [ret |-> EINPROGRESS, q |-> q2, dgram |-> NoDgram]

\* (variant: without the check)
IsDead_Never(q) == FALSE

\* The check at the top of ip_frag_queue.
IsDead(q) == INET_FRAG_COMPLETE \in q.flags

\* ip_frag_queue(qp, skb) with peer->rid passed in and out:
\* [ret, q, dgram, peer_rid].  f is the fragment, t its tos, fc whether
\* IPCB(skb)->flags has IPSKB_FRAG_COMPLETE.
ip_frag_queue(q0, f, t, fc, prid, oom) ==
  LET out(r, p) ==
        [ret |-> r.ret, q |-> r.q, dgram |-> r.dgram, peer_rid |-> p]
      fail(e, qq, p) ==
        [ret |-> e, q |-> qq, dgram |-> NoDgram, peer_rid |-> p]
  IN IF IsDead(q0) THEN fail(ENOENT, q0, prid)
     ELSE
       LET tf == IF fc THEN [rc |-> FALSE, q |-> q0, peer_rid |-> prid]
                 ELSE ip_frag_too_far(q0, prid)
           ri == IF tf.rc THEN ip_frag_reinit(tf.q)
                 ELSE [err |-> OK, q |-> tf.q]
       IN IF ri.err # OK THEN fail(ri.err, ipq_kill(ri.q), tf.peer_rid)
          ELSE
            LET ce == CheckEnd(ri.q, f)
                offset == f.off * FragUnit
            IN IF ce.err THEN fail(EINVAL, ce.q, tf.peer_rid)
               ELSE IF ce.end = offset THEN fail(EINVAL, ce.q, tf.peer_rid)
               ELSE IF oom = "pull"
                    THEN fail(ENOMEM, ce.q, tf.peer_rid)
               ELSE out(Link(ce.q, f, t, ce.end, oom), tf.peer_rid)

\* ---------------------------------------------------- exact-cover bookkeeping
\* cover[id] follows the calls made on queue id while they form the run the
\* reassembly contract is about: fragments with pairwise disjoint ranges,
\* every more-fragments one ending on an 8-byte boundary, at most one final
\* one and nothing beyond it, inserted one call at a time into a queue that
\* no timer, evictor, reinitialization or failed allocation has touched.
Dirty == [ok |-> FALSE, set |-> {}]
Clean(S) == [ok |-> TRUE, set |-> S]

FOff(x) == x.f.off * FragUnit
FEnd(x) == FOff(x) + x.f.len

PartialCover(S) ==
  /\ \A x \in S : x.f.len > 0 /\ (x.f.mf => FEnd(x) % FragUnit = 0)
  /\ \A x, y \in S : x # y => (FEnd(x) <= FOff(y) \/ FEnd(y) <= FOff(x))
  /\ \A x, y \in S : (~x.f.mf /\ ~y.f.mf) => x = y
  /\ \A x, y \in S : ~x.f.mf => FEnd(y) <= FEnd(x)

RECURSIVE SumLen(_)
SumLen(S) ==
  IF S = {} THEN 0
  ELSE LET x == CHOOSE y \in S : TRUE IN x.f.len + SumLen(S \ {x})

IsExactCover(S) ==
  /\ PartialCover(S)
  /\ \E x \in S : ~x.f.mf /\ SumLen(S) = FEnd(x)

\* The payloads of S, whole, in offset order.
RECURSIVE InOffsetOrder(_)
InOffsetOrder(S) ==
  IF S = {} THEN <<>>
  ELSE LET x == CHOOSE y \in S : \A z \in S : FOff(y) <= FOff(z)
       IN <<[f |-> x.f, tos |-> x.tos, skip |-> 0, len |-> x.f.len]>>
            \o InOffsetOrder(S \ {x})

\* ------------------------------------------------------------------ actions
NoCall == [none |-> TRUE]

Init ==
  /\ queues = [id \in QIds |-> NoQueue]
  /\ peer_rid = [s \in Saddrs |-> 0]
  /\ lru = <<>>
  /\ icmp = {}
  /\ evicted = 0
  /\ born = [id \in QIds |-> 0]
  /\ seen = [id \in QIds |-> 0]
  /\ pc = [p \in Procs |-> "idle"]
  /\ qp = [p \in Procs |-> 0]
  /\ tos = [p \in Procs |-> 0]
  /\ calls = 0
  /\ bursts = 0
  /\ last = NoCall
  /\ cover = [id \in QIds |-> Clean({})]
  /\ traffic \in Traffic

\* (variant: the routing-domain index is not compared)
ip4_frag_match_NoVif(q, arg) ==
  /\ q.key.id = arg.id
  /\ q.key.saddr = arg.saddr
  /\ q.key.daddr = arg.daddr
  /\ q.key.protocol = arg.protocol
  /\ q.key.user = arg.user

\* ip4_frag_match: the queue's six key fields against the caller's.
ip4_frag_match(q, arg) ==
  /\ q.key.id = arg.id
  /\ q.key.saddr = arg.saddr
  /\ q.key.daddr = arg.daddr
  /\ q.key.protocol = arg.protocol
  /\ q.key.user = arg.user
  /\ q.key.vif = arg.vif

\* inet_frag_find on the index Q: the first hashed queue that ip4_frag_match
\* accepts (0: none).
Lookup(Q, k) ==
  LET M == {id \in QIds : IsQueue(Q[id]) /\ Q[id].hashed
                             /\ ip4_frag_match(Q[id], k)}
  IN IF M = {} THEN 0 ELSE CHOOSE id \in M : \A o \in M : id <= o

FreeIds == {id \in QIds : queues[id] = NoQueue}

\* frag_mem_limit: the memory the queues of Q have charged and not released.
RECURSIVE SumMem(_, _)
SumMem(Q, S) ==
  IF S = {} THEN 0
  ELSE LET id == CHOOSE i \in S : TRUE
       IN (IF IsQueue(Q[id]) THEN Q[id].mem ELSE 0) + SumMem(Q, S \ {id})

frag_mem_limit(Q) == SumMem(Q, QIds)

\* The lru list without the queues that were unhashed (inet_frag_kill
\* unlinks the queue from the hash and from the list).
LruSync(l, Q) == SelectSeq(l, LAMBDA i : IsQueue(Q[i]) /\ Q[i].hashed)

\* (variant: a queue stays where it is on the list)
inet_frag_lru_move_Stay(l, id) == l

\* inet_frag_lru_move: a queue on the list moves to its tail.
inet_frag_lru_move(l, id) ==
  IF \E i \in 1..Len(l) : l[i] = id
  THEN Append(SelectSeq(l, LAMBDA i : i # id), id)
  ELSE l

\* The evictor takes the queue from the head of the list with a reference
\* of its own, kills it as an eviction and drops the reference.
EvictHead(q) ==
  ipq_put(ipq_kill([q EXCEPT !.refcnt = @ + 1,
                             !.flags = @ \cup {INET_FRAG_EVICTED}]))

\* inet_frag_evictor's loop: the oldest queue goes while the charged memory
\* is above low_thresh and the list is not empty.  [queues, lru, evicted]
RECURSIVE inet_frag_evictor(_, _, _)
inet_frag_evictor(Q, l, n) ==
  IF frag_mem_limit(Q) <= low_thresh \/ l = <<>>
  THEN [queues |-> Q, lru |-> l, evicted |-> n]
  ELSE inet_frag_evictor([Q EXCEPT ![Head(l)] = EvictHead(Q[Head(l)])],
                         Tail(l), n + 1)

\* ip_evictor at the start of rpl_ip_defrag: nothing to do unless the
\* charged memory is above high_thresh.
ip_evictor(Q, l) ==
  IF frag_mem_limit(Q) <= high_thresh
  THEN [queues |-> Q, lru |-> l, evicted |-> 0]
  ELSE inet_frag_evictor(Q, l, 0)

\* The callers are interchangeable CPUs: a new call runs on c1 unless c1 is
\* inside a call.
FirstIdle(p) ==
  /\ pc[p] = "idle"
  /\ p = "c2" => pc["c1"] = "queue"

\* rpl_ip_defrag up to the queue lock: ip_evictor, then ip_find finds or
\* creates the queue and takes a reference.
Find(p, k, t) ==
  /\ FirstIdle(p)
  /\ calls < CallsOf(traffic)
  /\ LET ev == ip_evictor(queues, lru)
         id == Lookup(ev.queues, k)
     IN IF id # 0
        THEN /\ queues' = [ev.queues EXCEPT ![id].refcnt = @ + 1]
             /\ lru' = ev.lru
             /\ qp' = [qp EXCEPT ![p] = id]
             /\ cover' = cover
             /\ born' = born
        ELSE /\ FreeIds # {}
             /\ LET new == CHOOSE i \in FreeIds : \A j \in FreeIds : i <= j
                IN /\ queues' = [ev.queues EXCEPT
                                   ![new] = ip4_frag_init(k, t)]
                   /\ lru' = Append(ev.lru, new)
                   /\ qp' = [qp EXCEPT ![p] = new]
                   /\ cover' = [cover EXCEPT ![new] = Clean({})]
                   /\ born' = [born EXCEPT
                                 ![new] = IF traffic \in Load
                                          THEN peer_rid[k.saddr] ELSE @]
  /\ pc' = [pc EXCEPT ![p] = "queue"]
  /\ tos' = [tos EXCEPT ![p] = t]
  /\ calls' = calls + 1
  /\ evicted' = evicted + ip_evictor(queues, lru).evicted
  /\ UNCHANGED <<peer_rid, icmp, seen, bursts, last, traffic>>

\* rpl_ip_defrag when ip_find returns NULL (the queue could not be created).
FindFail(p, k) ==
  /\ FirstIdle(p)
  /\ calls < CallsOf(traffic)
  /\ LET ev == ip_evictor(queues, lru)
     IN /\ Lookup(ev.queues, k) = 0
        /\ queues' = ev.queues
        /\ lru' = ev.lru
  /\ calls' = calls + 1
  /\ evicted' = evicted + ip_evictor(queues, lru).evicted
  /\ last' = [q |-> 0, ret |-> ENOMEM, dgram |-> NoDgram,
               flags |-> {}, len |-> 0, meat |-> 0]
  /\ UNCHANGED <<peer_rid, icmp, born, seen, pc, qp, tos, bursts, cover,
                 traffic>>

\* Whether ip_frag_queue on q0 reinitializes the queue before it goes on.
Restarts(q0, fc, prid) ==
  /\ ~IsDead(q0)
  /\ ~fc
  /\ ip_frag_too_far(q0, prid).rc
  /\ ip_frag_reinit(q0).err = OK

\* Whether the call that returned r on q0 put its fragment on the list: it
\* returned -EINPROGRESS or the datagram, or ip_frag_reasm ran (it kills
\* the queue first) and failed.
Inserted(q0, r) ==
  \/ r.ret \in {EINPROGRESS, OK}
  \/ /\ INET_FRAG_COMPLETE \in r.q.flags
     /\ INET_FRAG_COMPLETE \notin q0.flags
     /\ r.ret # ETIMEDOUT

\* The history s of a queue after a call with a fragment of tos t.
Seen(s, q0, r, t, restarted) ==
  LET base == IF restarted THEN 0 ELSE s
  IN IF Inserted(q0, r) THEN BitOr(base, ip4_frag_ecn(t)) ELSE base

\* Whether another caller is between ip_find and the lock on queue id.
OthersInside(p, id) ==
  \E o \in Procs \ {p} : pc[o] = "queue" /\ qp[o] = id

CoverStep(p, id, f, fc, oom) ==
  LET q == queues[id]
      S == cover[id].set \cup {[f |-> f, tos |-> tos[p]]}
  IN IF /\ cover[id].ok
        /\ oom = "none"
        /\ ~OthersInside(p, id)
        /\ INET_FRAG_COMPLETE \notin q.flags
        /\ ~q.expiring
        /\ (fc \/ ~ip_frag_too_far(q, peer_rid[q.key.saddr]).rc)
        /\ [f |-> f, tos |-> tos[p]] \notin cover[id].set
        /\ PartialCover(S)
     THEN Clean(S)
     ELSE Dirty

\* rpl_ip_defrag from spin_lock to the return: ip_frag_queue under the
\* queue lock, then ipq_put.
Queue(p, f, fc, oom) ==
  /\ pc[p] = "queue"
  /\ LET id == qp[p]
         src == queues[id].key.saddr
         r == ip_frag_queue(queues[id], f, tos[p], fc, peer_rid[src], oom)
     IN /\ queues' = [queues EXCEPT ![id] = ipq_put(r.q)]
        /\ peer_rid' = [peer_rid EXCEPT ![src] = r.peer_rid]
        /\ lru' = LruSync(IF r.ret = EINPROGRESS
                          THEN inet_frag_lru_move(lru, id) ELSE lru,
                          queues')
        /\ last' = [q |-> id, ret |-> r.ret, dgram |-> r.dgram,
                     flags |-> r.q.flags, len |-> r.q.len,
                     meat |-> r.q.meat]
        /\ cover' = [cover EXCEPT ![id] = CoverStep(p, id, f, fc, oom)]
        /\ seen' = [seen EXCEPT
                      ![id] = IF traffic = "mixed"
                              THEN Seen(@, queues[id], r, tos[p],
                                        Restarts(queues[id], fc,
                                                 peer_rid[src]))
                              ELSE @]
  /\ pc' = [pc EXCEPT ![p] = "idle"]
  /\ qp' = [qp EXCEPT ![p] = 0]
  /\ tos' = [tos EXCEPT ![p] = 0]
  /\ UNCHANGED <<icmp, evicted, born, calls, bursts, traffic>>

\* The expiry timer goes off: the callback is dispatched with the timer's
\* reference and will take the queue lock.
TimerFire(id) ==
  /\ IsQueue(queues[id])
  /\ queues[id].timer = "pending"
  /\ queues' = [queues EXCEPT ![id].timer = "off", ![id].expiring = TRUE]
  /\ UNCHANGED <<peer_rid, lru, icmp, evicted, born, seen, pc, qp, tos,
                 calls, bursts, last, cover, traffic>>

frag_expire_skip_icmp(user) ==
  \/ user = IP_DEFRAG_AF_PACKET
  \/ user \in {IP_DEFRAG_CONNTRACK_IN}
  \/ user \in {IP_DEFRAG_CONNTRACK_BRIDGE_IN}

\* inet_frag_evicting
inet_frag_evicting(q) == INET_FRAG_EVICTED \in q.flags

\* (variant: the route's type is not looked at)
SendsIcmp_AnyRoute(q, env) ==
  /\ INET_FRAG_COMPLETE \notin q.flags
  /\ ~inet_frag_evicting(q)
  /\ INET_FRAG_FIRST_IN \in q.flags
  /\ q.fragments # <<>>
  /\ env.dev
  /\ env.route

\* Whether ip_expire, with the lock on q taken, gets to icmp_send.
SendsIcmp(q, env) ==
  /\ INET_FRAG_COMPLETE \notin q.flags
  /\ ~inet_frag_evicting(q)
  /\ INET_FRAG_FIRST_IN \in q.flags
  /\ q.fragments # <<>>
  /\ env.dev
  /\ env.route
  /\ ~(frag_expire_skip_icmp(q.key.user) /\ ~env.local)

\* (variant: the callback only drops its reference)
ip_expire_NoKill(q) == ipq_put(q)

\* ip_expire under the queue lock, then ipq_put.
ip_expire(q) ==
  ipq_put(IF INET_FRAG_COMPLETE \in q.flags THEN q ELSE ipq_kill(q))

\* The timer callback: ip_expire, and the ICMP message if it sends one.
Expire(id, env) ==
  /\ IsQueue(queues[id])
  /\ queues[id].expiring
  /\ queues' = [queues EXCEPT
                  ![id] = ip_expire([queues[id] EXCEPT !.expiring = FALSE])]
  /\ lru' = LruSync(lru, queues')
  /\ icmp' = IF SendsIcmp(queues[id], env)
             THEN icmp \cup {[q |-> id, user |-> queues[id].key.user,
                               local |-> env.local]}
             ELSE icmp
  /\ UNCHANGED <<peer_rid, evicted, born, seen, pc, qp, tos, calls, bursts,
                 last, cover, traffic>>

\* The evictor picks the queue: it takes the pending timer away, marks the
\* queue evicted and runs the expiry handler on it.
Evict(id) ==
  /\ IsQueue(queues[id])
  /\ queues[id].hashed
  /\ queues[id].timer = "pending"
  /\ queues' = [queues EXCEPT
                  ![id] = ip_expire([queues[id] EXCEPT
                                        !.timer = "off",
                                        !.flags = @ \cup {INET_FRAG_EVICTED}])]
  /\ lru' = LruSync(lru, queues')
  /\ UNCHANGED <<peer_rid, icmp, evicted, born, seen, pc, qp, tos, calls,
                 bursts, last, cover, traffic>>

\* A burst of fragments of the same source arrives for other queues: each
\* of them increments peer->rid.
PeerTraffic ==
  /\ bursts < BurstsOf(traffic)
  /\ bursts' = bursts + 1
  /\ peer_rid' = [peer_rid EXCEPT ![K0.saddr] = @ + BurstSize(traffic)]
  /\ UNCHANGED <<queues, lru, icmp, evicted, born, seen, pc, qp, tos, calls,
                 last, cover, traffic>>

Next ==
  \/ \E p \in Procs, k \in KeysOf(traffic), t \in EcnOf(traffic) :
        Find(p, k, t)
  \/ \E p \in Procs, k \in KeysOf(traffic) : FindFail(p, k)
  \/ \E p \in Procs, f \in FragsOf(traffic), fc \in FcOf(traffic),
        oom \in OomOf(traffic) : Queue(p, f, fc, oom)
  \/ \E id \in QIds : TimerFire(id)
  \/ \E id \in QIds, env \in EnvOf(traffic) : Expire(id, env)
  \/ \E id \in QIds : Evict(id)
  \/ PeerTraffic

Spec == Init /\ [][Next]_vars

\* The same program under the families of Load.
LoadInit ==
  /\ queues = [id \in QIds |-> NoQueue]
  /\ peer_rid = [s \in Saddrs |-> 0]
  /\ lru = <<>>
  /\ icmp = {}
  /\ evicted = 0
  /\ born = [id \in QIds |-> 0]
  /\ seen = [id \in QIds |-> 0]
  /\ pc = [p \in Procs |-> "idle"]
  /\ qp = [p \in Procs |-> 0]
  /\ tos = [p \in Procs |-> 0]
  /\ calls = 0
  /\ bursts = 0
  /\ last = NoCall
  /\ cover = [id \in QIds |-> Clean({})]
  /\ traffic \in Load

LoadSpec == LoadInit /\ [][Next]_vars

\* ===================================================================== C1
\* The body a set of fragments reassembles to does not depend on the order
\* of arrival.
EcnValid(S) ==
  LET E == {x.tos : x \in S} IN 0 \in E => E = {0}

SizeValid(S) == \A x \in S : FOff(x) = 0 => x.f.ihl + SumLen(S) <= MaxDatagram

\* C1 (as amended): for every set of fragments whose byte ranges cover
\* [0, total_len) exactly once (every more-fragments fragment ending on an
\* 8-byte boundary, exactly one final fragment), whose ECN codepoints do
\* not mix Not-ECT with another codepoint and whose header plus total_len
\* is at most 65535, inserting them one call at a time into a fresh queue
\* that nothing else touches returns Pending for every insert but the last
\* and Complete on the last, and the datagram body is the concatenation of
\* the payloads in offset order, the same for every order of arrival; a
\* covering set with a mixed ECN union or more than 65535 bytes is rejected
\* on its last insert and produces no datagram.
C1_OrderIndependent ==
  \A id \in QIds :
    (last # NoCall /\ last.q = id /\ cover[id].ok) =>
      LET S == cover[id].set
      IN IF ~IsExactCover(S) THEN last.ret = EINPROGRESS
         ELSE IF EcnValid(S) /\ SizeValid(S)
              THEN /\ last.ret = OK
                   /\ last.dgram # NoDgram
                   /\ last.dgram.body = InOffsetOrder(S)
              ELSE /\ last.ret \in {EINVAL, E2BIG}
                   /\ last.dgram = NoDgram

\* C1 as stated: every exactly covering set completes.
C1_AsStated ==
  \A id \in QIds :
    (last # NoCall /\ last.q = id /\ cover[id].ok) =>
      LET S == cover[id].set
      IN IF ~IsExactCover(S) THEN last.ret = EINPROGRESS
         ELSE /\ last.ret = OK
              /\ last.dgram # NoDgram
              /\ last.dgram.body = InOffsetOrder(S)

\* Three fragments of an exact cover have been glued into a datagram.
C1_Witness ==
  /\ last # NoCall
  /\ last.q # 0
  /\ cover[last.q].ok
  /\ Cardinality(cover[last.q].set) = 3
  /\ last.ret = OK

\* ===================================================================== C2
\* Steps of the callers and of the timer, as seen from both states.
QueueStep(p) == pc[p] = "queue" /\ pc'[p] = "idle"
WasLive(id) == IsQueue(queues[id]) /\ INET_FRAG_COMPLETE \notin queues[id].flags
Whole(r) ==
  /\ r.meat = r.len
  /\ {INET_FRAG_FIRST_IN, INET_FRAG_LAST_IN} \subseteq r.flags

\* C2 (as amended): the COMPLETE flag becomes set on a queue at most once
\* (it is never cleared).  It is set either by a kill that returns no
\* datagram (the expiry timer, the evictor, a failed reinitialization) or
\* by an insert in which received_len == total_len and both FIRST_IN and
\* LAST_IN are set; insert returns a datagram only in such a step, on a
\* queue that was not COMPLETE before.
C2_Step ==
  \A id \in QIds :
    /\ (IsQueue(queues[id]) /\ INET_FRAG_COMPLETE \in queues[id].flags
          /\ IsQueue(queues'[id]))
         => INET_FRAG_COMPLETE \in queues'[id].flags
    /\ \A p \in Procs :
         (QueueStep(p) /\ qp[p] = id) =>
           /\ (last'.ret = OK) <=> (last'.dgram # NoDgram)
           /\ last'.ret = OK =>
                (WasLive(id) /\ Whole(last') /\ INET_FRAG_COMPLETE \in last'.flags)
           /\ (WasLive(id) /\ INET_FRAG_COMPLETE \in last'.flags) =>
                (Whole(last') \/ last'.ret = ETIMEDOUT)
    /\ (WasLive(id) /\ IsQueue(queues'[id])
          /\ INET_FRAG_COMPLETE \in queues'[id].flags) =>
         \/ \E p \in Procs : QueueStep(p) /\ qp[p] = id
         \/ queues[id].expiring /\ ~queues'[id].expiring
         \/ INET_FRAG_EVICTED \in queues'[id].flags

C2_CompleteOnce == [][C2_Step]_vars

\* C2 as stated: COMPLETE is set only in a step in which received_len ==
\* total_len and FIRST_IN and LAST_IN are set.
C2_AsStated ==
  [][\A id \in QIds :
       (WasLive(id) /\ IsQueue(queues'[id])
          /\ INET_FRAG_COMPLETE \in queues'[id].flags) =>
         Whole(queues'[id])]_vars

\* An insert has glued a queue that another holder keeps alive.
C2_Witness ==
  /\ last # NoCall
  /\ last.ret = OK
  /\ last.q # 0
  /\ IsQueue(queues[last.q])
  /\ INET_FRAG_COMPLETE \in queues[last.q].flags

\* ===================================================================== C3
\* C3: once a queue is COMPLETE or EVICTED, every later insert on it is
\* rejected and leaves its fragment list and received_len as they were.
C3_Step ==
  \A p \in Procs :
    (QueueStep(p) /\ IsQueue(queues[qp[p]])
       /\ queues[qp[p]].flags \cap {INET_FRAG_COMPLETE, INET_FRAG_EVICTED} # {})
    => /\ last'.ret = ENOENT
       /\ last'.dgram = NoDgram
       /\ IsQueue(queues'[qp[p]]) =>
            /\ queues'[qp[p]].fragments = queues[qp[p]].fragments
            /\ queues'[qp[p]].meat = queues[qp[p]].meat

C3_NoInsertAfterComplete == [][C3_Step]_vars

\* An insert was refused on a dead queue that still holds fragments and
\* that another holder keeps alive.
C3_Witness ==
  /\ last # NoCall
  /\ last.ret = ENOENT
  /\ IsQueue(queues[last.q])
  /\ queues[last.q].fragments # <<>>

\* ===================================================================== C4
RECURSIVE SumRecs(_)
SumRecs(fr) == IF fr = <<>> THEN 0 ELSE Head(fr).len + SumRecs(Tail(fr))

Sorted(fr) ==
  /\ \A i \in 1..Len(fr) : fr[i].len > 0
  /\ \A i \in 1..(Len(fr) - 1) : fr[i].offset + fr[i].len <= fr[i + 1].offset

\* C4: in every reachable state the fragment list of a queue is strictly
\* increasing in offset and the held byte ranges are pairwise disjoint.
C4_SortedDisjoint ==
  \A id \in QIds : IsQueue(queues[id]) => Sorted(queues[id].fragments)

\* A queue holds three records, one of them cut at its head by an overlap.
C4_Witness ==
  \E id \in QIds :
    /\ IsQueue(queues[id])
    /\ Len(queues[id].fragments) = 3
    /\ \E i \in 1..3 : queues[id].fragments[i].skip > 0

\* ===================================================================== C5
Glued(q) ==
  /\ INET_FRAG_COMPLETE \in q.flags
  /\ q.fragments = <<>>
  /\ q.meat = q.len

\* C5 (as amended): after every insert call, accepted or rejected,
\* received_len equals the sum of the lengths of the fragment records held,
\* which do not overlap, except on a queue that has been glued into a
\* datagram: gluing hands the records to the datagram and leaves
\* received_len at total_len.  When the too-far heuristic does not trip, an
\* accepted new fragment that overlaps the tail of its predecessor is held
\* from the predecessor's end on, and received_len grows by no more than the
\* bytes that remain.
C5_Inv ==
  \A id \in QIds :
    IsQueue(queues[id]) =>
      LET q == queues[id]
      IN /\ Sorted(q.fragments)
         /\ q.meat = SumRecs(q.fragments) \/ Glued(q)

\* The held record that precedes byte offset o (0: none).
Pred(fr, o) ==
  IF \E i \in 1..Len(fr) : fr[i].offset < o
  THEN CHOOSE i \in 1..Len(fr) :
         fr[i].offset < o /\ \A j \in 1..Len(fr) :
                               fr[j].offset < o => fr[j].offset <= fr[i].offset
  ELSE 0

WireEnd(f) ==
  LET e == f.off * FragUnit + f.len
  IN IF f.mf THEN e - (e % FragUnit) ELSE e

NoReinit(q, fc) == fc \/ ~ip_frag_too_far(q, peer_rid[q.key.saddr]).rc

C5_Step ==
  \A p \in Procs, f \in FragsOf(traffic), fc \in FcOf(traffic),
     oom \in OomOf(traffic) :
    LET q == queues[qp[p]]
        o == f.off * FragUnit
        pi == Pred(q.fragments, o)
        pend == q.fragments[pi].offset + q.fragments[pi].len
        recs == IF last'.ret = OK THEN last'.dgram.body
                ELSE queues'[qp[p]].fragments
    IN (/\ QueueStep(p)
        /\ last'.ret \in {EINPROGRESS, OK}
        /\ ~IsDead(q)
        /\ pi # 0
        /\ pend > o
        /\ NoReinit(q, fc)
        /\ Queue(p, f, fc, oom))
       => /\ \E i \in 1..Len(recs) :
               /\ recs[i].f = f
               /\ recs[i].skip = pend - o
               /\ recs[i].len = WireEnd(f) - pend
          /\ last'.meat <= q.meat + (WireEnd(f) - pend)

C5_MeatIsSum == [](C5_Inv) /\ [][C5_Step]_vars

\* C5 as stated: received_len is the sum of the held lengths after every
\* insert.
C5_AsStated ==
  \A id \in QIds :
    IsQueue(queues[id]) => queues[id].meat = SumRecs(queues[id].fragments)

\* A record was cut at its head to start at its predecessor's end.
C5_Witness ==
  \E id \in QIds :
    /\ IsQueue(queues[id])
    /\ \E i \in 2..Len(queues[id].fragments) :
         /\ queues[id].fragments[i].skip > 0
         /\ queues[id].fragments[i].offset
              = queues[id].fragments[i - 1].offset
                  + queues[id].fragments[i - 1].len
         /\ queues[id].meat = SumRecs(queues[id].fragments)

\* ===================================================================== C6
\* C6 (as stated): when a queue has LAST_IN set and a second final fragment
\* arrives whose end differs from total_len, the fragment is rejected and
\* the queue is killed by that call.
C6_Step ==
  \A p \in Procs, f \in FragsOf(traffic), fc \in FcOf(traffic),
     oom \in OomOf(traffic) :
    LET q == queues[qp[p]]
    IN (/\ QueueStep(p)
        /\ ~f.mf
        /\ ~IsDead(q)
        /\ INET_FRAG_LAST_IN \in q.flags
        /\ f.off * FragUnit + f.len # q.len
        /\ NoReinit(q, fc)
        /\ Queue(p, f, fc, oom))
       => /\ last'.ret = EINVAL
          /\ INET_FRAG_COMPLETE \in last'.flags

C6_AsStated == [][C6_Step]_vars

\* ===================================================================== C7
\* The byte range of f lies inside one held record of q.
Contained(q, f) ==
  /\ f.len > 0
  /\ \E i \in 1..Len(q.fragments) :
       /\ q.fragments[i].offset <= f.off * FragUnit
       /\ f.off * FragUnit + f.len
            <= q.fragments[i].offset + q.fragments[i].len

NoDuplicateOffset(fr) ==
  \A i, j \in 1..Len(fr) : i # j => fr[i].offset # fr[j].offset

C7_Body(p, f, fc, oom, guard) ==
  LET q == queues[qp[p]]
  IN (/\ QueueStep(p)
      /\ IsQueue(q)
      /\ Contained(q, f)
      /\ guard
      /\ Queue(p, f, fc, oom))
     => /\ last'.meat = q.meat
        /\ IsQueue(queues'[qp[p]]) =>
             NoDuplicateOffset(queues'[qp[p]].fragments)

\* C7 (as amended): when the too-far heuristic does not trip, inserting a
\* fragment whose byte range lies inside one held record (whether or not it
\* starts at that record's offset) leaves received_len as it was, and the
\* fragment list afterwards has no two records at the same offset.
C7_Step ==
  \A p \in Procs, f \in FragsOf(traffic), fc \in FcOf(traffic),
     oom \in OomOf(traffic) :
    C7_Body(p, f, fc, oom, NoReinit(queues[qp[p]], fc))

C7_Absorbed == [][C7_Step]_vars

\* C7 as stated: the same for every insert of a contained fragment.
C7_AsStated ==
  [][\A p \in Procs, f \in FragsOf(traffic), fc \in FcOf(traffic),
        oom \in OomOf(traffic) : C7_Body(p, f, fc, oom, TRUE)]_vars

\* A fragment that started at a held record's offset and ended inside it
\* has been inserted: the held record now starts where the new one ends.
C7_Witness ==
  /\ last # NoCall
  /\ last.ret = EINPROGRESS
  /\ IsQueue(queues[last.q])
  /\ LET fr == queues[last.q].fragments
     IN \E i \in 1..(Len(fr) - 1) :
          /\ fr[i].skip = 0
          /\ fr[i + 1].skip > 0
          /\ fr[i + 1].f.off = fr[i].f.off
          /\ fr[i + 1].offset = fr[i].offset + fr[i].len

\* ===================================================================== C8
\* The example: the queue holds only the whole first fragment (offset 0,
\* 1000 bytes, more-fragments), and the final fragment that starts inside
\* it at byte 496 and ends at byte 1500 is inserted.
ExFirst == Frag(0, 1000, TRUE, FALSE)
ExSecond == Frag(62, 1004, FALSE, FALSE)

HoldsOnlyFirst(q) ==
  /\ IsQueue(q)
  /\ ~IsDead(q)
  /\ q.len = ExFirst.len
  /\ Len(q.fragments) = 1
  /\ q.fragments[1].f = ExFirst
  /\ q.fragments[1].skip = 0
  /\ q.fragments[1].len = ExFirst.len

C8_Body(p, fc, first_len, second_skip) ==
  LET q == queues[qp[p]]
  IN (/\ QueueStep(p)
      /\ HoldsOnlyFirst(q)
      /\ NoReinit(q, fc)
      /\ Queue(p, ExSecond, fc, "none"))
     => /\ last'.ret = OK
        /\ last'.len = 1500
        /\ last'.dgram.tot_len = ExFirst.ihl + 1500
        /\ Len(last'.dgram.body) = 2
        /\ last'.dgram.body[1].f = ExFirst
        /\ last'.dgram.body[1].skip = 0
        /\ last'.dgram.body[1].len = first_len
        /\ last'.dgram.body[2].f = ExSecond
        /\ last'.dgram.body[2].skip = second_skip
        /\ last'.dgram.body[2].len = 1500 - first_len

\* C8 (as amended): when a held first fragment covering [0,1000) with
\* more-fragments set (the length declared so far is 1000: no refused
\* fragment has raised it) is followed by an overlapping final fragment
\* that starts inside it and ends at 1500, and the too-far heuristic does
\* not trip, the held fragment keeps its 1000 bytes, the new fragment's head is
\* cut so that it starts at byte 1000 (500 bytes remain), and the queue
\* completes with total length 1500.
C8_Example ==
  [][\A p \in Procs, fc \in FcOf(traffic) :
       C8_Body(p, fc, ExFirst.len, ExFirst.len - ExSecond.off * FragUnit)]_vars

\* C8 as stated: the held first fragment is cut down to where the second
\* one starts, and the queue completes with total length 1500.
C8_AsStated ==
  [][\A p \in Procs, fc \in FcOf(traffic) :
       C8_Body(p, fc, ExSecond.off * FragUnit, 0)]_vars

\* The example has completed: 1500 bytes in two pieces.
C8_Witness ==
  /\ last # NoCall
  /\ last.ret = OK
  /\ last.len = 1500
  /\ Len(last.dgram.body) = 2
  /\ last.dgram.body[1].f = ExFirst
  /\ last.dgram.body[2].f = ExSecond

\* ===================================================================== C9
\* C9 (as stated): a datagram built entirely from fragments without
\* do-not-fragment does not carry do-not-fragment, and a datagram whose
\* single largest fragment carried do-not-fragment carries it.
C9_AsStated ==
  (last # NoCall /\ last.ret = OK) =>
    LET B == last.dgram.body
    IN /\ (\A i \in 1..Len(B) : ~B[i].f.df) => ~last.dgram.df
       /\ (\E i \in 1..Len(B) :
             /\ B[i].f.df
             /\ \A j \in 1..Len(B) : j # i => B[j].f.len < B[i].f.len)
          => last.dgram.df

\* ==================================================================== C10
\* A timer that is pending goes off after the timeout, and a dispatched
\* callback gets the queue lock (no holder keeps it: nothing blocks inside
\* the locked sections).
LiveSpec ==
  /\ Spec
  /\ \A id \in QIds :
       /\ WF_vars(TimerFire(id))
       /\ WF_vars(\E env \in EnvOf(traffic) : Expire(id, env))

InIndex(id) == IsQueue(queues[id]) /\ queues[id].hashed

\* The step in which caller p gets a queue from ip_find.
FindStep(p) == pc[p] = "idle" /\ pc'[p] = "queue"

C10_Step ==
  \A p \in Procs :
    FindStep(p) =>
      LET id == qp'[p]
      IN /\ id \in QIds
         /\ IF InIndex(id)
            THEN /\ INET_FRAG_COMPLETE \notin queues[id].flags
                 /\ queues'[id] = [queues[id] EXCEPT !.refcnt = @ + 1]
            ELSE /\ queues[id] = NoQueue
                 /\ IsQueue(queues'[id])
                 /\ queues'[id].hashed
                 /\ queues'[id].fragments = <<>>
                 /\ queues'[id].flags = {}
                 /\ queues'[id].len = 0
                 /\ queues'[id].meat = 0

\* C10: a queue in the index that does not complete is eventually killed
\* by its expiry timer and leaves the index (COMPLETE set, not found by
\* ip_find any more), and a fragment with the same key that arrives after
\* that gets a queue that is in the index and not dead, or else a newly
\* created one with no fragments, no flags and total_len and received_len
\* zero: never the fragments, flags, total_len or received_len of the
\* expired queue.
C10_ExpiryThenFresh ==
  /\ \A id \in QIds : InIndex(id) ~> ~InIndex(id)
  /\ [][C10_Step]_vars

\* The first queue was killed by its timer while it held fragments (a
\* caller still has a reference), and a later fragment with the same key
\* has been inserted into a second, fresh queue.
C10_Witness ==
  /\ IsQueue(queues[1])
  /\ ~queues[1].hashed
  /\ INET_FRAG_EVICTED \notin queues[1].flags
  /\ queues[1].fragments # <<>>
  /\ InIndex(2)
  /\ queues[2].key = queues[1].key
  /\ Len(queues[2].fragments) = 1

\* ==================================================================== C11
Hashed(Q) == {id \in QIds : IsQueue(Q[id]) /\ Q[id].hashed}

\* A step that starts a call of rpl_ip_defrag: it runs ip_evictor first.
CallStart == calls' = calls + 1

\* The queues such a step evicted.
Evictees == Hashed(queues) \ Hashed(queues')

\* What the eviction of id gave back: nothing while somebody else still
\* holds the queue.
Released(id) == IF queues'[id] = Freed THEN queues[id].mem ELSE 0

LruIsIndex ==
  /\ {lru[i] : i \in 1..Len(lru)} = Hashed(queues)
  /\ \A i, j \in 1..Len(lru) : lru[i] = lru[j] => i = j

C11_Run ==
  (CallStart /\ frag_mem_limit(queues) > high_thresh) =>
    LET E == Evictees
    IN /\ \A i, j \in 1..Len(lru) : (i < j /\ lru[j] \in E) => lru[i] \in E
       /\ frag_mem_limit(queues') <= low_thresh \/ E = Hashed(queues)
       /\ \A i \in 1..Len(lru) :
            (lru[i] \in E /\ (i = Len(lru) \/ lru[i + 1] \notin E))
              => frag_mem_limit(queues') + Released(lru[i]) > low_thresh
       /\ evicted' = evicted + Cardinality(E)

C11_NoRun ==
  (CallStart /\ frag_mem_limit(queues) <= high_thresh) =>
    (Evictees = {} /\ evicted' = evicted)

C11_Others ==
  CallStart =>
    \A id \in QIds \ Evictees :
      IsQueue(queues[id]) =>
        /\ IsQueue(queues'[id])
        /\ queues'[id].fragments = queues[id].fragments
        /\ queues'[id].flags = queues[id].flags
        /\ queues'[id].len = queues[id].len
        /\ queues'[id].meat = queues[id].meat

C11_Recency ==
  \A p \in Procs :
    (/\ pc[p] = "queue"
     /\ pc'[p] = "idle"
     /\ last'.ret = EINPROGRESS
     /\ qp[p] \in Hashed(queues')) => lru'[Len(lru')] = qp[p]

RejectCause(q0, f, fc, prid, oom) ==
  IF INET_FRAG_COMPLETE \in q0.flags THEN "AlreadyComplete"
  ELSE
    LET tf == IF fc THEN [rc |-> FALSE, q |-> q0]
              ELSE ip_frag_too_far(q0, prid)
        ri == IF tf.rc THEN ip_frag_reinit(tf.q) ELSE [err |-> OK, q |-> tf.q]
        q == ri.q
        offset == f.off * FragUnit
        end0 == offset + f.len
        end == IF f.mf THEN end0 - (end0 % FragUnit) ELSE end0
        nx == FindNext(q.fragments, offset)
        i == PrevOverlap(q.fragments, nx - 1, offset)
        eat == EatNext(SubSeq(q.fragments, nx, Len(q.fragments)), end,
                       q.meat, oom)
    IN IF ri.err # OK THEN "TooFarSpread"
       ELSE IF ~f.mf /\ (end < q.len
                          \/ (INET_FRAG_LAST_IN \in q.flags /\ end # q.len))
            THEN "ConflictingLength"
       ELSE IF f.mf /\ end > q.len /\ INET_FRAG_LAST_IN \in q.flags
            THEN "BeyondEnd"
       ELSE IF end = offset THEN "ZeroLengthFragment"
       ELSE IF oom = "pull" THEN "TrimFailure"
       ELSE IF i > 0 /\ end <= offset + i THEN "OverlapCollapse"
       ELSE IF (i > 0 /\ oom = "pull_prev") \/ eat.err THEN "OutOfMemory"
       ELSE "none"

\* The value each cause is reported with.
Errno(cause) ==
  CASE cause = "AlreadyComplete" -> ENOENT
    [] cause = "TooFarSpread" -> ETIMEDOUT
    [] cause \in {"ConflictingLength", "BeyondEnd", "ZeroLengthFragment",
                  "OverlapCollapse"} -> EINVAL
    [] cause \in {"TrimFailure", "OutOfMemory"} -> ENOMEM

\* What the callers that are about to take the queue lock can be answered:
\* one entry per fragment they may carry.
Attempts ==
  {[cause |-> RejectCause(queues[qp[p]], f, fc,
                          peer_rid[queues[qp[p]].key.saddr], oom),
    ret |-> ip_frag_queue(queues[qp[p]], f, tos[p], fc,
                          peer_rid[queues[qp[p]].key.saddr], oom).ret,
    dgram |-> ip_frag_queue(queues[qp[p]], f, tos[p], fc,
                            peer_rid[queues[qp[p]].key.saddr], oom).dgram] :
     p \in {c \in Procs : pc[c] = "queue"}, f \in FragsOf(traffic),
     fc \in FcOf(traffic), oom \in OomOf(traffic)}

Covering(q) == Frag(0, IF q.len = 0 THEN FragUnit ELSE q.len, FALSE, FALSE)

\* Whether one more fragment can still turn q into a datagram (it arrives
\* next: the source sent nothing else in between).
Completes(q) ==
  \E t \in 0..INET_ECN_MASK :
    ip_frag_queue(q, Covering(q), t, FALSE, q.rid, "none").ret = OK

\* Whether what q has recorded still fits a datagram: the declared length
\* with a header, and an ECN union that some codepoint completes validly.
Glueable(q) ==
  /\ Covering(q).ihl + Covering(q).len <= MaxDatagram
  /\ \E t \in 0..INET_ECN_MASK :
       ip_frag_ecn_table(BitOr(q.ecn, ip4_frag_ecn(t))) # 255

\* The returns the callers about to take the queue lock can get: one entry
\* per fragment they may carry, with the queue as ip_frag_queue leaves it.
Outcomes ==
  {[cause |-> RejectCause(queues[qp[p]], f, fc,
                          peer_rid[queues[qp[p]].key.saddr], oom),
    r |-> ip_frag_queue(queues[qp[p]], f, tos[p], fc,
                        peer_rid[queues[qp[p]].key.saddr], oom)] :
     p \in {c \in Procs : pc[c] = "queue"}, f \in FragsOf(traffic),
     fc \in FcOf(traffic), oom \in OomOf(traffic)}

Failed(o) == o.r.ret \notin {OK, EINPROGRESS}

\* C13 (as amended): an insert that is rejected on a live queue before the
\* fragment is linked, for any cause but TooFarSpread, leaves the queue
\* indexed and not COMPLETE, and a later fragment can still complete it
\* exactly when the length and the ECN union recorded so far (a rejected
\* fragment may have raised the length or set LAST_IN) still fit a
\* datagram.  TooFarSpread and a failed gluing kill the queue.
C13_RejectKeepsQueue ==
  \A o \in Outcomes :
    /\ (Failed(o) /\ o.cause \notin {"none", "AlreadyComplete", "TooFarSpread"})
         => /\ o.r.q.hashed
            /\ INET_FRAG_COMPLETE \notin o.r.q.flags
            /\ Completes(o.r.q) <=> Glueable(o.r.q)
    /\ (Failed(o) /\ o.cause \in {"none", "TooFarSpread"})
         => /\ ~o.r.q.hashed
            /\ INET_FRAG_COMPLETE \in o.r.q.flags

\* C13 as stated: after a rejection other than TooFarSpread the queue is
\* indexed, not COMPLETE, and can still be completed.
C13_AsStated ==
  \A o \in Outcomes :
    (Failed(o) /\ o.cause # "TooFarSpread")
      => /\ o.r.q.hashed
         /\ INET_FRAG_COMPLETE \notin o.r.q.flags
         /\ Completes(o.r.q)

\* C13 as stated, for the rejections before linking on a live queue only.
C13_AsStatedLive ==
  \A o \in Outcomes :
    (Failed(o) /\ o.cause \notin {"none", "AlreadyComplete", "TooFarSpread"})
      => Completes(o.r.q)

\* A fragment was rejected, the queue is still indexed with what it held,
\* and one more fragment completes it.
C13_Witness ==
  /\ last # NoCall
  /\ last.ret \in {EINVAL, ENOMEM}
  /\ last.q \in Hashed(queues)
  /\ queues[last.q].fragments # <<>>
  /\ Completes(queues[last.q])

\* ==================================================================== C14
\* A step in which the timer callback of queue id ran.
ExpireStep(id) ==
  /\ IsQueue(queues[id])
  /\ queues[id].expiring
  /\ queues'[id] = Freed \/ ~queues'[id].expiring

C14_Expire ==
  \A id \in QIds :
    ExpireStep(id) =>
      IF INET_FRAG_COMPLETE \in queues[id].flags
      THEN /\ icmp' = icmp
           /\ lru' = lru
           /\ \/ queues'[id] = Freed
              \/ queues'[id] = [queues[id] EXCEPT !.expiring = FALSE,
                                                  !.refcnt = @ - 1]
      ELSE \/ queues'[id] = Freed
           \/ /\ INET_FRAG_COMPLETE \in queues'[id].flags
              /\ ~queues'[id].hashed

C14_Insert ==
  \A p \in Procs :
    QueueStep(p) =>
      /\ INET_FRAG_COMPLETE \in queues[qp[p]].flags
           => /\ last'.ret = ENOENT
              /\ last'.dgram = NoDgram
              /\ queues'[qp[p]] = ipq_put(queues[qp[p]])
      /\ last'.dgram # NoDgram
           => /\ INET_FRAG_COMPLETE \notin queues[qp[p]].flags
              /\ INET_FRAG_COMPLETE \in last'.flags

C14_Stays ==
  \A id \in QIds :
    (IsQueue(queues[id]) /\ INET_FRAG_COMPLETE \in queues[id].flags)
      => \/ queues'[id] = Freed
         \/ /\ IsQueue(queues'[id])
            /\ INET_FRAG_COMPLETE \in queues'[id].flags
            /\ ~queues'[id].hashed

\* C14: whichever of gluing and expiry takes the queue lock first marks the
\* queue COMPLETE, and the mark stays.  The timer callback that finds the
\* queue COMPLETE only drops the timer's reference: it kills nothing, takes
\* nothing from the index and sends no ICMP message; the one that finds it
\* not COMPLETE kills it.  An insert that finds the queue COMPLETE returns
\* -ENOENT and no datagram and leaves the queue as it is; a datagram is
\* only returned from a queue that was not COMPLETE.
C14_GlueOrExpire == [][C14_Expire /\ C14_Insert /\ C14_Stays]_vars

\* The timer callback killed the queue and sent the ICMP message; the
\* insert that came after it was refused.
C14_Witness ==
  /\ last # NoCall
  /\ last.ret = ENOENT
  /\ \E m \in icmp : m.q = last.q

\* ==================================================================== C15
\* C15: an insert on a live queue that does not reinitialize it never
\* lowers len, and leaves len and LAST_IN as they are once LAST_IN is set.
\* A final fragment that ends before len, or anywhere but at len once
\* LAST_IN is set, and a more-fragments fragment that (cut to whole units)
\* ends beyond len once LAST_IN is set, are rejected with -EINVAL.
C15_LenMonotone ==
  \A p \in {c \in Procs : pc[c] = "queue"}, f \in FragsOf(traffic),
     fc \in FcOf(traffic), oom \in OomOf(traffic) :
    LET q0 == queues[qp[p]]
        r == ip_frag_queue(q0, f, tos[p], fc, peer_rid[q0.key.saddr], oom)
        last_in == INET_FRAG_LAST_IN \in q0.flags
    IN (INET_FRAG_COMPLETE \notin q0.flags /\ NoReinit(q0, fc)) =>
         /\ r.q.len >= q0.len
         /\ last_in => (r.q.len = q0.len /\ INET_FRAG_LAST_IN \in r.q.flags)
         /\ (~f.mf /\ (WireEnd(f) < q0.len
                       \/ (last_in /\ WireEnd(f) # q0.len)))
              => (r.ret = EINVAL /\ r.dgram = NoDgram /\ r.q.len = q0.len)
         /\ (f.mf /\ last_in /\ WireEnd(f) > q0.len)
              => (r.ret = EINVAL /\ r.dgram = NoDgram)

\* A fragment was rejected with -EINVAL by a queue that has its final
\* fragment and not yet all the bytes before it.
C15_Witness ==
  /\ last # NoCall
  /\ last.ret = EINVAL
  /\ INET_FRAG_LAST_IN \in last.flags
  /\ INET_FRAG_COMPLETE \notin last.flags
  /\ last.meat < last.len

\* ==================================================================== C16
\* The attempts that get as far as ip_frag_too_far.
Counted(q0, fc) == INET_FRAG_COMPLETE \notin q0.flags /\ ~fc

\* What the insert amounts to once the too-far test is decided: the
\* fragment is processed, with the test out of the way, against the queue
\* as it is, or reinitialized when the test tripped; a reinitialization
\* that fails kills the queue.  [ret, q, dgram]
Decided(q0, f, t, prid, oom, trip) ==
  LET q1 == [q0 EXCEPT !.rid = prid + 1]
      ri == ip_frag_reinit(q1)
      r == ip_frag_queue(IF trip THEN ri.q ELSE q1, f, t, TRUE, prid + 1, oom)
  IN IF trip /\ ri.err # OK
     THEN [ret |-> ri.err, q |-> ipq_kill(ri.q), dgram |-> NoDgram]
     ELSE [ret |-> r.ret, q |-> r.q, dgram |-> r.dgram]

Trimmed(r) == [ret |-> r.ret, q |-> r.q, dgram |-> r.dgram]

\* C16 (as amended): an insertion attempt increments the per-source counter
\* unless the queue is already COMPLETE or the fragment is flagged
\* IPSKB_FRAG_COMPLETE, and the queue then notes the counter's new value.
\* The too-far heuristic trips exactly when the queue holds fragments and
\* the counter has grown by more than sysctl_ipfrag_max_dist since the
\* value the queue noted at its previous counted attempt (0 for a queue
\* that had none).
C16_SpreadSincePrevious ==
  \A p \in {c \in Procs : pc[c] = "queue"}, f \in FragsOf(traffic),
     fc \in FcOf(traffic), oom \in OomOf(traffic) :
    LET q0 == queues[qp[p]]
        prid == peer_rid[q0.key.saddr]
        r == ip_frag_queue(q0, f, tos[p], fc, prid, oom)
        trip == /\ q0.fragments # <<>>
                /\ (prid + 1) - q0.rid > sysctl_ipfrag_max_dist
    IN IF Counted(q0, fc)
       THEN /\ r.peer_rid = prid + 1
            /\ r.q.rid = prid + 1
            /\ Trimmed(r) = Decided(q0, f, tos[p], prid, oom, trip)
       ELSE /\ r.peer_rid = prid
            /\ r.q.rid = q0.rid

\* C16 as stated: every attempt increments the counter, and the heuristic
\* trips exactly when the queue holds fragments and the counter has grown
\* by more than the limit since the queue was created.
C16_AsStated ==
  \A p \in {c \in Procs : pc[c] = "queue"}, f \in FragsOf(traffic),
     fc \in FcOf(traffic), oom \in OomOf(traffic) :
    LET q0 == queues[qp[p]]
        prid == peer_rid[q0.key.saddr]
        r == ip_frag_queue(q0, f, tos[p], fc, prid, oom)
        trip == /\ q0.fragments # <<>>
                /\ (prid + 1) - born[qp[p]] > sysctl_ipfrag_max_dist
    IN /\ r.peer_rid = prid + 1
       /\ Trimmed(r) = Decided(q0, f, tos[p], prid, oom, trip)

\* C16 as stated, for the counted attempts only.
C16_AsStatedCounted ==
  \A p \in {c \in Procs : pc[c] = "queue"}, f \in FragsOf(traffic),
     oom \in OomOf(traffic) :
    LET q0 == queues[qp[p]]
        prid == peer_rid[q0.key.saddr]
        r == ip_frag_queue(q0, f, tos[p], FALSE, prid, oom)
        trip == /\ q0.fragments # <<>>
                /\ (prid + 1) - born[qp[p]] > sysctl_ipfrag_max_dist
    IN Counted(q0, FALSE)
         => Trimmed(r) = Decided(q0, f, tos[p], prid, oom, trip)

\* Two bursts, each shorter than the limit, came between two fragments of
\* the datagram: the heuristic tripped, and the timer had already fired.
C16_Witness ==
  /\ traffic = "spread"
  /\ last # NoCall
  /\ last.ret = ETIMEDOUT

\* ==================================================================== C17
\* The queue q0 with nothing in it: no records (their memory given back),
\* no flags, meat, len and iif zero, the ECN union cleared, the counter's
\* new value noted, the timer still pending.
Emptied(q0, prid) ==
  [q0 EXCEPT !.rid = prid + 1, !.fragments = <<>>, !.flags = {},
             !.meat = 0, !.len = 0, !.iif = 0, !.ecn = 0,
             !.mem = @ - SumTruesize(q0.fragments)]

C17_Trip ==
  \A p \in {c \in Procs : pc[c] = "queue"}, f \in FragsOf(traffic),
     oom \in OomOf(traffic) :
    LET q0 == queues[qp[p]]
        prid == peer_rid[q0.key.saddr]
        r == ip_frag_queue(q0, f, tos[p], FALSE, prid, oom)
        e == ip_frag_queue(Emptied(q0, prid), f, tos[p], TRUE, prid + 1, oom)
    IN (INET_FRAG_COMPLETE \notin q0.flags /\ ip_frag_too_far(q0, prid).rc) =>
         IF q0.timer = "pending"
         THEN /\ Emptied(q0, prid).timer = "pending"
              /\ Emptied(q0, prid).hashed
              /\ Trimmed(r) = Trimmed(e)
         ELSE /\ r.ret = ETIMEDOUT
              /\ r.dgram = NoDgram
              /\ INET_FRAG_COMPLETE \in r.q.flags
              /\ ~r.q.hashed
              /\ r.q.timer = "off"

C17_Dead ==
  \A p \in Procs :
    (QueueStep(p) /\ INET_FRAG_COMPLETE \in queues[qp[p]].flags)
      => last'.dgram = NoDgram

\* C17: when the too-far heuristic trips on a queue whose timer is pending,
\* the insert is the processing of the fragment against the queue emptied
\* in place (records released, flags, meat, len, iif and ECN union
\* cleared), still indexed and with its timer pending; when the timer is
\* not pending (its callback is on the way) the insert returns -ETIMEDOUT
\* and leaves the queue COMPLETE, out of the index and without a timer.  A
\* COMPLETE queue stays COMPLETE and no insert on it returns a datagram.
C17_ReinitOrKill == [](C17_Trip) /\ [][C17_Dead /\ C14_Stays]_vars

\* After the burst the heuristic tripped on a queue that held a 16-byte
\* fragment: the queue was emptied and now holds only the 8-byte fragment
\* that tripped it (max_size still tells of the larger one).
C17_Witness ==
  /\ bursts = 1
  /\ last # NoCall
  /\ last.ret = EINPROGRESS
  /\ last.q \in Hashed(queues)
  /\ queues[last.q].timer = "pending"
  /\ Len(queues[last.q].fragments) = 1
  /\ queues[last.q].fragments[1].f.len + queues[last.q].fragments[1].f.ihl
       < queues[last.q].max_size

\* ==================================================================== C18
\* The hashed queues with the key k.
WithKey(Q, k) == {id \in Hashed(Q) : Q[id].key = k}

C18_Index ==
  /\ \A a \in Hashed(queues), b \in Hashed(queues) :
       queues[a].key = queues[b].key => a = b
  /\ \A id \in Hashed(queues) : INET_FRAG_COMPLETE \notin queues[id].flags

C18_Find ==
  \A p \in Procs, k \in KeysOf(traffic), t \in EcnOf(traffic) :
    Find(p, k, t) =>
      LET there == WithKey(queues, k) \cap Hashed(queues')
      IN /\ qp'[p] \in Hashed(queues')
         /\ queues'[qp'[p]].key = k
         /\ WithKey(queues', k) = {qp'[p]}
         /\ there # {} =>
              /\ there = {qp'[p]}
              /\ queues'[qp'[p]].refcnt >= queues[qp'[p]].refcnt + 1
              /\ queues'[qp'[p]].fragments = queues[qp'[p]].fragments
         /\ there = {} => queues[qp'[p]] = NoQueue

\* C18: no two hashed queues have the same six-field key, and a hashed
\* queue is not COMPLETE; a find-or-create call with key k returns a hashed
\* queue whose key is k in all six fields, the only one with that key: the
\* queue that was hashed under k before the call if the call's evictor run
\* left it in the index (with one more reference), a newly created one
\* otherwise.
C18_OneQueuePerKey == [](C18_Index) /\ [][C18_Find]_vars

\* Two callers are inside with the same queue while the index also holds a
\* queue whose key differs from theirs in one field only.
C18_Witness ==
  /\ traffic = "keys"
  /\ pc["c1"] = "queue" /\ pc["c2"] = "queue"
  /\ qp["c1"] = qp["c2"]
  /\ qp["c1"] \in Hashed(queues)
  /\ \E b \in Hashed(queues) :
       /\ b # qp["c1"]
       /\ queues[b].fragments # <<>>
       /\ queues[b].key \in OneFieldOff(queues[qp["c1"]].key)
       /\ queues[b].key.vif # queues[qp["c1"]].key.vif

\* ==================================================================== C19
\* The context tags for which a timeout is reported only by the end host.
EndHostOnly ==
  {IP_DEFRAG_AF_PACKET, IP_DEFRAG_CONNTRACK_IN,
   IP_DEFRAG_CONNTRACK_BRIDGE_IN}

C19_Step ==
  /\ \A id \in QIds, env \in EnvOf(traffic) :
       Expire(id, env) =>
         LET q == queues[id]
         IN (icmp' # icmp) <=>
              /\ INET_FRAG_COMPLETE \notin q.flags
              /\ INET_FRAG_EVICTED \notin q.flags
              /\ INET_FRAG_FIRST_IN \in q.flags
              /\ \E i \in 1..Len(q.fragments) : q.fragments[i].offset = 0
              /\ env.dev
              /\ env.route
              /\ q.key.user \in EndHostOnly => env.local
  /\ icmp' # icmp => \E id \in QIds : ExpireStep(id)

C19_Sent ==
  /\ \A m \in icmp :
       /\ m.user \in EndHostOnly => m.local
       /\ queues[m.q] # NoQueue
       /\ IsQueue(queues[m.q]) =>
            /\ INET_FRAG_COMPLETE \in queues[m.q].flags
            /\ INET_FRAG_EVICTED \notin queues[m.q].flags
            /\ ~queues[m.q].hashed
  /\ \A m \in icmp, n \in icmp : m.q = n.q => m = n

C19_AsStatedLocal == \A m \in icmp : m.local

ReasmRan(q0, r) ==
  /\ INET_FRAG_COMPLETE \notin q0.flags
  /\ INET_FRAG_COMPLETE \in r.q.flags
  /\ r.ret # ETIMEDOUT

\* C20 (as stated): when ip_frag_reasm runs, the queue's ecn is the union
\* of the codepoints of the fragments inserted since the queue was created
\* or reinitialized (the one that completes it included, a rejected one
\* contributing nothing), and the gluing fails with -EINVAL and without a
\* datagram when that union is an invalid combination.
C20_AsStated ==
  traffic = "mixed" =>
    \A p \in {c \in Procs : pc[c] = "queue"}, f \in FragsOf(traffic) :
      LET q0 == queues[qp[p]]
          prid == peer_rid[q0.key.saddr]
          r == ip_frag_queue(q0, f, tos[p], FALSE, prid, "none")
          u == Seen(seen[qp[p]], q0, r, tos[p], Restarts(q0, FALSE, prid))
      IN ReasmRan(q0, r) =>
           /\ r.q.ecn = u
           /\ ip_frag_ecn_table(u) = 255
                => r.ret = EINVAL /\ r.dgram = NoDgram

\* What follows for the caller (as stated): a datagram whose inserted
\* fragments are all Not-ECT is not refused for its ECN codepoints.
C20_AsStatedValid ==
  traffic = "mixed" =>
    \A p \in {c \in Procs : pc[c] = "queue"}, f \in FragsOf(traffic) :
      LET q0 == queues[qp[p]]
          prid == peer_rid[q0.key.saddr]
          r == ip_frag_queue(q0, f, tos[p], FALSE, prid, "none")
          u == Seen(seen[qp[p]], q0, r, tos[p], Restarts(q0, FALSE, prid))
      IN (ReasmRan(q0, r) /\ ip_frag_ecn_table(u) # 255) => r.ret = OK

\* What the code keeps: the queue's ecn is the union of the codepoint of
\* the fragment the queue was created for, inserted or not, and of the
\* codepoints of the fragments inserted since.
C20_SeedAndInserted ==
  traffic = "mixed" =>
    \A id \in QIds :
      (IsQueue(queues[id]) /\ ~INET_FRAG_COMPLETE \in queues[id].flags)
        => \E t \in EcnOf(traffic) :
             queues[id].ecn = BitOr(ip4_frag_ecn(t), seen[id])

\* ==================================================================== C21
\* The completion condition on a queue that has not been glued or killed.
Waiting(q) ==
  /\ INET_FRAG_COMPLETE \notin q.flags
  /\ q.flags = {INET_FRAG_FIRST_IN, INET_FRAG_LAST_IN}
  /\ q.meat = q.len

C21_CallsBody ==
  \A p \in {c \in Procs : pc[c] = "queue"}, f \in FragsOf(traffic),
     fc \in FcOf(traffic), oom \in OomOf(traffic) :
    LET q0 == queues[qp[p]]
        prid == peer_rid[q0.key.saddr]
        r == ip_frag_queue(q0, f, tos[p], fc, prid, oom)
        cause == RejectCause(q0, f, fc, prid, oom)
    IN /\ r.ret = EINPROGRESS => ~Waiting(r.q)
       /\ (Waiting(r.q) /\ ~Waiting(q0)) =>
            /\ ~f.mf
            /\ cause \in {"ZeroLengthFragment", "TrimFailure",
                          "OverlapCollapse", "OutOfMemory"}
            /\ r.q.len = f.off * FragUnit + f.len
            /\ r.q.fragments = q0.fragments
       /\ (Waiting(q0) /\ NoReinit(q0, fc) /\ cause = "none") =>
            /\ INET_FRAG_COMPLETE \in r.q.flags
            /\ r.ret # EINPROGRESS

\* C21 (as amended): an insert that returns -EINPROGRESS never leaves the
\* queue in the completion condition.  A rejected insert can: a final
\* fragment that is refused after its end was recorded (empty range, trim
\* or allocation failure, overlap collapse) leaves the records as they
\* were and sets LAST_IN and len, which can complete the condition without
\* a gluing.  Such a queue is glued by the next insert that links a
\* fragment without a reinitialization.
C21_GluedWhenLinked == C21_CallsBody

\* C21 as stated: no queue that has not been glued or killed is in the
\* completion condition.
C21_AsStated ==
  \A id \in QIds : IsQueue(queues[id]) => ~Waiting(queues[id])

\* A rejected final fragment left an indexed queue in the completion
\* condition.
C21_Witness ==
  /\ last # NoCall
  /\ last.ret \in {EINVAL, ENOMEM}
  /\ last.q \in Hashed(queues)
  /\ Waiting(queues[last.q])

\* ==================================================================== C22
\* Whether flags, len, meat and the fragment list of a and b are the same.
SameFour(a, b) ==
  /\ a.flags = b.flags
  /\ a.len = b.len
  /\ a.meat = b.meat
  /\ a.fragments = b.fragments

\* The records of fr that lie inside [offset, end).
Inside(fr, offset, end) ==
  {i \in 1..Len(fr) : offset <= fr[i].offset
                        /\ fr[i].offset + fr[i].len <= end}

\* The rejected inserts of the callers about to take the queue lock, when
\* the too-far heuristic does not trip: [q0, f, cause, r].
Refusals ==
  {x \in
     {[q0 |-> queues[qp[p]], f |-> f,
       quiet |-> NoReinit(queues[qp[p]], fc),
       cause |-> RejectCause(queues[qp[p]], f, fc,
                             peer_rid[queues[qp[p]].key.saddr], oom),
       r |-> ip_frag_queue(queues[qp[p]], f, tos[p], fc,
                           peer_rid[queues[qp[p]].key.saddr], oom)] :
        p \in {c \in Procs : pc[c] = "queue"}, f \in FragsOf(traffic),
        fc \in FcOf(traffic), oom \in OomOf(traffic)} :
     x.quiet /\ x.r.ret \notin {OK, EINPROGRESS}}

\* C22 (as amended): when the too-far heuristic does not trip, an insert
\* rejected for AlreadyComplete, ConflictingLength or data beyond the
\* declared end leaves flags, len, meat and the fragment list as they
\* were.  One rejected later (empty range, trim failure, overlap collapse,
\* allocation failure) has already recorded its end: len is the larger of
\* the old len and the fragment's end, LAST_IN is set if it was a final
\* fragment; meat and the list are as they were, unless the allocation
\* failed in the loop over the successors, which may already have freed
\* the successors that lie inside the fragment's range and taken their
\* bytes off meat.  A failed gluing has linked the fragment and killed the
\* queue.
C22_RejectFrame ==
  \A x \in Refusals :
    LET q0 == x.q0
        q == x.r.q
        end == WireEnd(x.f)
        gone == Inside(q0.fragments, x.f.off * FragUnit, end)
    IN CASE x.cause \in {"AlreadyComplete", "ConflictingLength",
                         "BeyondEnd"} -> SameFour(q, q0)
         [] x.cause \in {"ZeroLengthFragment", "TrimFailure",
                         "OverlapCollapse", "OutOfMemory"} ->
              /\ q.len = Max(q0.len, end)
              /\ q.flags = (IF x.f.mf THEN q0.flags
                            ELSE q0.flags \cup {INET_FRAG_LAST_IN})
              /\ \/ q.meat = q0.meat /\ q.fragments = q0.fragments
                 \/ /\ x.cause = "OutOfMemory"
                    /\ x.r.ret = ENOMEM
                    /\ gone # {}
                    /\ q.fragments =
                         SelectSeq(q0.fragments,
                                   LAMBDA s : \A i \in gone :
                                                q0.fragments[i] # s)
                    /\ q.meat < q0.meat
         [] x.cause = "none" ->
              /\ INET_FRAG_COMPLETE \in q.flags
              /\ INET_FRAG_COMPLETE \notin q0.flags
              /\ ~q.hashed
              /\ Len(q.fragments) >= 1
         [] OTHER -> FALSE

\* C22 as stated: when the too-far heuristic does not trip, a rejected
\* insert leaves flags, len, meat and the fragment list as they were.
C22_AsStated == \A x \in Refusals : SameFour(x.r.q, x.q0)

\* C22 as stated, for the fragment list and meat alone.
C22_AsStatedList ==
  \A x \in Refusals :
    x.cause # "none" =>
      (x.r.q.meat = x.q0.meat /\ x.r.q.fragments = x.q0.fragments)

\* A fragment was refused with -ENOMEM on a queue that no burst has
\* reinitialized: the queue is still indexed, holds nothing, and has the
\* refused fragment's end as its len.
C22_Witness ==
  /\ bursts = 0
  /\ last # NoCall
  /\ last.ret = ENOMEM
  /\ last.q \in Hashed(queues)
  /\ queues[last.q].fragments = <<>>
  /\ queues[last.q].len > 0

\* ==================================================================== C23
\* C23: on every queue, every held record lies within [0, len), so that
\* meat, the bytes held, is at most len.
C23_WithinLen ==
  \A id \in QIds :
    IsQueue(queues[id]) =>
      LET q == queues[id]
      IN /\ \A i \in 1..Len(q.fragments) :
              /\ 0 <= q.fragments[i].offset
              /\ q.fragments[i].len > 0
              /\ q.fragments[i].offset + q.fragments[i].len <= q.len
         /\ 0 <= q.meat
         /\ q.meat <= q.len

\* A queue holds a record whose head was cut off and a record that ends
\* where len is, and the latest fragment was refused.
C23_Witness ==
  /\ last # NoCall
  /\ last.ret = EINVAL
  /\ last.q \in Hashed(queues)
  /\ LET q == queues[last.q]
     IN /\ \E i \in 1..Len(q.fragments) : q.fragments[i].skip > 0
        /\ \E i \in 1..Len(q.fragments) :
             q.fragments[i].offset + q.fragments[i].len = q.len
        /\ q.meat = q.len

\* ==================================================================== C24
\* Who holds a reference to queue id: the index, the pending timer, the
\* callers between ip_find and ipq_put, the timer callback on its way.
Holders(id) ==
  (IF queues[id].hashed THEN 1 ELSE 0)
    + (IF queues[id].timer = "pending" THEN 1 ELSE 0)
    + Cardinality({p \in Procs : pc[p] = "queue" /\ qp[p] = id})
    + (IF queues[id].expiring THEN 1 ELSE 0)

C24_Held ==
  /\ \A id \in QIds :
       IsQueue(queues[id]) =>
         /\ queues[id].refcnt >= 1
         /\ queues[id].refcnt = Holders(id)
  /\ \A p \in Procs : pc[p] = "queue" => IsQueue(queues[qp[p]])

C24_FreedOnce ==
  \A id \in QIds :
    /\ queues[id] = Freed => queues'[id] = Freed
    /\ (queues[id] # Freed /\ queues'[id] = Freed) =>
         /\ IsQueue(queues[id])
         /\ queues[id].expiring => ExpireStep(id)
         /\ \A p \in Procs : ~(pc'[p] = "queue" /\ qp'[p] = id)

\* C24: a queue's reference count is the number of its holders (the index
\* entry, the pending timer, each caller inside rpl_ip_defrag, the timer
\* callback on its way), so it is never below it; a caller inside always
\* has a queue that is not freed; a freed queue stays freed, and a queue is
\* freed only by a step after which no caller is inside with it, and with
\* the timer callback on its way only by that callback.
C24_RefcountCoversHolders == [](C24_Held) /\ [][C24_FreedOnce]_vars

\* The too-far heuristic tripped after the timer went off: the
\* reinitialization failed, the caller killed the queue and left, and the
\* queue stays for the timer callback, which has the only reference.
C24_Witness ==
  /\ last # NoCall
  /\ last.ret = ETIMEDOUT
  /\ IsQueue(queues[last.q])
  /\ queues[last.q].expiring
  /\ queues[last.q].timer = "off"
  /\ ~queues[last.q].hashed
  /\ queues[last.q].refcnt = 1

\* ==================================================================== C25
\* The charge of the queues of S, each taken as the truesize of the records
\* it holds.
RECURSIVE HeldTruesize(_)
HeldTruesize(S) ==
  IF S = {} THEN 0
  ELSE LET id == CHOOSE i \in S : TRUE
       IN SumTruesize(queues[id].fragments) + HeldTruesize(S \ {id})

C25_Queues ==
  /\ \A id \in QIds :
       IsQueue(queues[id]) => queues[id].mem = SumTruesize(queues[id].fragments)
  /\ frag_mem_limit(queues) = HeldTruesize({id \in QIds : IsQueue(queues[id])})

C25_Calls ==
  \A p \in {c \in Procs : pc[c] = "queue"}, f \in FragsOf(traffic),
     fc \in FcOf(traffic), oom \in OomOf(traffic) :
    LET q0 == queues[qp[p]]
        prid == peer_rid[q0.key.saddr]
        r == ip_frag_queue(q0, f, tos[p], fc, prid, oom)
        linked == Inserted(q0, r)
        held == IF Restarts(q0, fc, prid) THEN <<>> ELSE q0.fragments
        cause == RejectCause(q0, f, fc, prid, oom)
        gone == IF cause # "none"
                   /\ ~(cause = "OutOfMemory" /\ oom = "pull_next")
                THEN <<>>
                ELSE SelectSeq(held, LAMBDA s :
                                 /\ f.off * FragUnit <= s.offset
                                 /\ s.offset + s.len <= WireEnd(f))
    IN /\ r.q.mem = SumTruesize(r.q.fragments)
       /\ r.ret = OK => (r.q.mem = 0 /\ r.q.fragments = <<>>)
       /\ r.ret # OK =>
            /\ r.q.mem = (SumTruesize(held) - SumTruesize(gone))
                           + (IF linked THEN f.truesize ELSE 0)
            /\ ~linked => r.q.mem <= q0.mem

\* C25: what a queue has charged is the sum of the truesize of the records
\* it holds, and what the queues have charged together is the sum over the
\* queues; after an insert the charge is that of the records held before
\* (none after a reinitialization), less the successors the call freed,
\* plus the fragment's own if it was linked (a refused fragment adds
\* nothing), and after a gluing that succeeded it is zero.
C25_ChargeIsHeld == C25_Queues /\ C25_Calls

\* A queue that was reinitialized while it held a fragment, and has since
\* lost a record to a fragment that covers it, holds two records and has
\* their truesize charged.
C25_Witness ==
  /\ bursts = 1
  /\ last # NoCall
  /\ last.ret = EINPROGRESS
  /\ last.q \in Hashed(queues)
  /\ Len(queues[last.q].fragments) = 2
  /\ queues[last.q].mem > 0
  /\ queues[last.q].mem = SumTruesize(queues[last.q].fragments)
  /\ \E i \in 1..2 : queues[last.q].fragments[i].skip > 0
====
